---- MODULE Spec2Model ----
(***************************************************************************)
(* Model of the ONNX Loop importer, op::set_1::loop(), of                  *)
(* ngraph/frontend/onnx_import/src/op/loop.cpp.                            *)
(*                                                                         *)
(* Spec      : one call of loop(node), stepped statement group by          *)
(*             statement group, over every bounded node / body graph.      *)
(* SpecExec  : the same call on a node with one carried dependency and one *)
(*             scan output, followed by a run of the Loop op it built next *)
(*             to a run of the loop the node describes.                    *)
(***************************************************************************)
EXTENDS Integers, Sequences, FiniteSets, TLC

\* ---- bounds ----
MaxK == 2          \* carried dependencies of the node: 0..MaxK
MaxParams == 4     \* body graph parameters: 0..MaxParams
MaxOuts == 4       \* body graph outputs: 0..MaxOuts
MaxTrip == 3       \* values of a runtime trip count: 0..MaxTrip
MaxIter == 4       \* iterations after which a run is cut off

VARIABLES ng_inputs, body_graph, body_outputs, trip_count, termination_cond,
          warned, loop, final_values, scan_outputs, node_outputs, result,
          pc, events, feed, exec

vars == <<ng_inputs, body_graph, body_outputs, trip_count, termination_cond,
          warned, loop, final_values, scan_outputs, node_outputs, result,
          pc, events, feed, exec>>

\* ---- values of the node's inputs (Output<ngraph::Node>) ----
\* src is the position among the node's inputs, -1 for a node created by loop()
NullNode(i) == [op |-> "NullNode", src |-> i, type |-> "none", val |-> 0]
RuntimeInput(i, t) == [op |-> "Parameter", src |-> i, type |-> t, val |-> 0]
ConstantInput(i, t, v) == [op |-> "Constant", src |-> i, type |-> t, val |-> v]
Unset == [op |-> "unset", src |-> -1, type |-> "none", val |-> 0]

is_null(v) == v.op = "NullNode"
is_constant(v) == v.op = "Constant"
\* Constant::cast_vector<bool>()[0]
cast_bool(v) == v.val # 0

TripCountInputs ==
    {NullNode(0), ConstantInput(0, "i64", 3), RuntimeInput(0, "i64")}
TerminationInputs ==
    {NullNode(1), ConstantInput(1, "boolean", 1), ConstantInput(1, "boolean", 0),
     RuntimeInput(1, "boolean")}

\* ---- values of the body graph ----
DynamicShape == [static |-> FALSE, dims |-> <<>>]
StaticShape(d) == [static |-> TRUE, dims |-> d]
Shapes == {DynamicShape, StaticShape(<<>>), StaticShape(<<2>>)}

NoInput == [const |-> FALSE, type |-> "none", val |-> 0]
\* what a condition output's node can be: (op, its input 1)
SecondInputs == {[const |-> TRUE, type |-> "boolean", val |-> 0],
                 [const |-> TRUE, type |-> "boolean", val |-> 1],
                 [const |-> TRUE, type |-> "i64", val |-> 0],
                 [const |-> FALSE, type |-> "boolean", val |-> 0]}
CondNodes ==
    {[op |-> "LogicalOr", in1 |-> s] : s \in SecondInputs}
      \cup {[op |-> "LogicalAnd", in1 |-> [const |-> TRUE, type |-> "boolean", val |-> 0]],
            [op |-> "Parameter", in1 |-> NoInput]}

\* body graph output j (0-based): node, shape
BodyOut(j, n, s) ==
    [op |-> n.op, src |-> j, type |-> "any", val |-> 0, shape |-> s, in1 |-> n.in1]

\* ngraph::op::Constant::create(element::boolean, {1}, {true}) as a body output
BodyConstTrue ==
    [op |-> "Constant", src |-> -1, type |-> "boolean", val |-> 1,
     shape |-> StaticShape(<<1>>), in1 |-> NoInput]

\* ngraph::is_scalar(shape)
is_scalar(d) == Len(d) = 0

\* std::make_shared<default_opset::Unsqueeze>(v, concat_axis_const), axis 0
Unsqueeze(v) ==
    [op |-> "Unsqueeze", src |-> v.src, type |-> v.type, val |-> v.val,
     shape |-> IF v.shape.static THEN StaticShape(<<1>> \o v.shape.dims)
               ELSE DynamicShape,
     in1 |-> NoInput]

\* all sequences over S of length n
RECURSIVE SeqsOfLen(_, _)
SeqsOfLen(S, n) ==
    IF n = 0 THEN {<<>>}
    ELSE {Append(q, x) : q \in SeqsOfLen(S, n - 1), x \in S}

\* Subgraph::get_ng_outputs(): condition output, then the other outputs
BodyOutputLists ==
    {<<>>} \cup
    UNION {{<<BodyOut(0, c, StaticShape(<<>>))>>
             \o [j \in 1..Len(q) |-> BodyOut(j, [op |-> "Other", in1 |-> NoInput], q[j])]
               : c \in CondNodes, q \in SeqsOfLen(Shapes, n)} : n \in 0..(MaxOuts - 1)}

\* Subgraph::get_ng_parameters(): a parameter is its declared position
\* (0 iteration number, 1 termination condition, 2.. carried)
BodyParameterLists == {[j \in 1..n |-> j - 1] : n \in 0..MaxParams}

\* const OutputVector loop_carried_dependencies{next(ng_inputs.begin(), 2), end}
loop_carried_dependencies == SubSeq(ng_inputs, 3, Len(ng_inputs))
body_inputs == body_graph.parameters

NoLoop == [created |-> FALSE, trip_count |-> Unset, termination_cond |-> Unset,
           ports |-> <<>>, results |-> <<>>, parameters |-> <<>>, merged |-> <<>>]

\* a run of a loop: iterations done, the condition, the carried value, the
\* values stacked so far
NoRun == [iter |-> 0, go |-> FALSE, carried |-> 0, scan |-> <<>>]
NoExec == [pc |-> "idle", built |-> NoRun, reference |-> NoRun]
NoFeed == [x |-> <<>>, trip |-> 0]

\* the locals of loop() before its first statement
InitLocals ==
    /\ body_outputs = body_graph.outputs
    /\ trip_count = Unset
    /\ termination_cond = Unset
    /\ warned = FALSE
    /\ loop = NoLoop
    /\ final_values = <<>>
    /\ scan_outputs = <<>>
    /\ node_outputs = <<>>
    /\ result = "none"
    /\ pc = "trip_count"
    /\ events = <<>>
    /\ exec = NoExec

Init ==
    /\ \E a \in TripCountInputs, b \in TerminationInputs, n \in 0..MaxK :
          ng_inputs = <<a, b>> \o [i \in 1..n |-> RuntimeInput(i + 1, "f32")]
    /\ \E o \in BodyOutputLists, p \in BodyParameterLists :
          body_graph = [outputs |-> o, parameters |-> p]
    /\ feed = NoFeed
    /\ InitLocals

\* ---- the pure parts of loop() ----

\* lines 89-98: the trip count handed to the Loop op
ResolveTripCount(in0) ==
    IF is_null(in0) THEN ConstantInput(-1, "i64", -1) ELSE in0

\* lines 102-112: input 1 is a Constant whose first element is false
IsConstantFalse(in1) ==
    /\ ~is_null(in1)
    /\ is_constant(in1)
    /\ ~cast_bool(in1)

\* mutant: a runtime input 1 is wired to the Loop op
ResolveTerminationCondWired(in1) ==
    IF is_null(in1) THEN ConstantInput(-1, "boolean", 1)
    ELSE IF is_constant(in1) THEN ConstantInput(-1, "boolean", 1)
    ELSE in1

\* lines 100-140: the termination condition handed to the Loop op
\* (every branch that does not return creates the same Constant)
ResolveTerminationCond(in1) ==
    IF is_null(in1) THEN ConstantInput(-1, "boolean", 1)
    ELSE IF is_constant(in1) THEN ConstantInput(-1, "boolean", 1)
    ELSE ConstantInput(-1, "boolean", 1)

\* mutant: the second loop over the dependencies is missing
ZeroIterationOutputsOnce(deps) == deps

\* lines 120-131: initial values as final values, then again as scan outputs
ZeroIterationOutputs(deps) == deps \o deps

\* mutant: the loop starts one position early
ScalarHandlingFromK(outs, k) ==
    [j \in 1..Len(outs) |->
        IF /\ j - 1 >= k
           /\ outs[j].shape.static
           /\ is_scalar(outs[j].shape.dims)
        THEN Unsqueeze(outs[j])
        ELSE outs[j]]

\* lines 146-155: Unsqueeze every static scalar output from position k + 1 on
ScalarHandling(outs, k) ==
    [j \in 1..Len(outs) |->
        IF /\ j - 1 >= k + 1
           /\ outs[j].shape.static
           /\ is_scalar(outs[j].shape.dims)
        THEN Unsqueeze(outs[j])
        ELSE outs[j]]

\* mutant: the value of the constant is not looked at
is_termination_condition_any_constant(body_out_cond) ==
    IF body_out_cond.op = "LogicalOr"
    THEN /\ body_out_cond.in1.const
         /\ body_out_cond.in1.type = "boolean"
    ELSE FALSE

\* lines 52-74
is_termination_condition_always_true(body_out_cond) ==
    IF body_out_cond.op = "LogicalOr"
    THEN /\ body_out_cond.in1.const
         /\ body_out_cond.in1.type = "boolean"
         /\ body_out_cond.in1.val = 0
    ELSE FALSE

\* mutant: body_inputs[1] put in front
BodyParamsCondFirst(inputs) == <<inputs[2]>> \o SubSeq(inputs, 3, Len(inputs))

\* lines 189-191: body_inputs from position 2 on, body_inputs[0] put in front
BodyParams(inputs) == <<inputs[1]>> \o SubSeq(inputs, 3, Len(inputs))

\* mutant: body_outputs_it starts at begin()
MergedInputsFromCond(inputs, deps, outs) ==
    [i \in 1..Len(deps) |->
        [body_parameter |-> inputs[i + 2],
         initial_value |-> deps[i],
         successive_value |-> outs[i]]]

\* lines 200-208: set_merged_input(*body_inputs_it++, dep, *body_outputs_it)
MergedInputs(inputs, deps, outs) ==
    [i \in 1..Len(deps) |->
        [body_parameter |-> inputs[i + 2],
         initial_value |-> deps[i],
         successive_value |-> outs[i + 1]]]

\* line 209: get_iter_value(*body_outputs_it++, -1)
GetIterValue(v, it) == [kind |-> "iter_value", body_value |-> v, iteration |-> it]
FinalValues(deps, outs) ==
    [i \in 1..Len(deps) |-> GetIterValue(outs[i + 1], -1)]

\* lines 214-219: get_concatenated_slices(*body_outputs_it, 0, 1, 1, -1, concat_axis)
concat_axis == 0
GetConcatenatedSlices(v, start, stride, part_size, end, axis) ==
    [kind |-> "concatenated_slices", body_value |-> v, start |-> start,
     stride |-> stride, part_size |-> part_size, end |-> end, axis |-> axis]
ScanOutputs(deps, outs) ==
    [j \in 1..(Len(outs) - Len(deps) - 1) |->
        GetConcatenatedSlices(outs[Len(deps) + 1 + j], 0, 1, 1, -1, concat_axis)]

\* mutant: scan outputs pushed first
NodeOutputsScanFirst(fv, so) == so \o fv

\* lines 221-230
NodeOutputs(fv, so) == fv \o so

\* ---- loop(), one action per statement group ----

\* lines 88-98
ResolveTrip ==
    /\ pc = "trip_count"
    /\ trip_count' = ResolveTripCount(ng_inputs[1])
    /\ pc' = "termination_cond"
    /\ UNCHANGED <<feed, exec, ng_inputs, body_graph, body_outputs, termination_cond, warned,
                   loop, final_values, scan_outputs, node_outputs, result, events>>

\* lines 100-140, the branches that go on
ResolveCond ==
    /\ pc = "termination_cond"
    /\ ~IsConstantFalse(ng_inputs[2])
    /\ termination_cond' = ResolveTerminationCond(ng_inputs[2])
    /\ pc' = "scalar_handling"
    /\ UNCHANGED <<feed, exec, ng_inputs, body_graph, body_outputs, trip_count, warned,
                   loop, final_values, scan_outputs, node_outputs, result, events>>

\* lines 117-132, the branch that returns the initial values
ZeroIterationReturn ==
    /\ pc = "termination_cond"
    /\ IsConstantFalse(ng_inputs[2])
    /\ node_outputs' = ZeroIterationOutputs(loop_carried_dependencies)
    /\ result' = "ok"
    /\ pc' = "done"
    /\ UNCHANGED <<feed, exec, ng_inputs, body_graph, body_outputs, trip_count, termination_cond,
                   warned, loop, final_values, scan_outputs, events>>

\* lines 142-155
ScalarHandlingStep ==
    /\ pc = "scalar_handling"
    /\ body_outputs' = ScalarHandling(body_outputs, Len(loop_carried_dependencies))
    /\ events' = IF Len(body_outputs) > Len(loop_carried_dependencies) + 1
                 THEN Append(events, "index_body_outputs")
                 ELSE events
    /\ pc' = "pattern"
    /\ UNCHANGED <<feed, exec, ng_inputs, body_graph, trip_count, termination_cond, warned,
                   loop, final_values, scan_outputs, node_outputs, result>>

\* lines 157-170; body_outputs.at(0) throws std::out_of_range on an empty vector
PatternStep ==
    /\ pc = "pattern"
    /\ events' = Append(events, "index_body_outputs")
    /\ IF Len(body_outputs) = 0
       THEN /\ result' = "out_of_range"
            /\ pc' = "done"
            /\ UNCHANGED <<body_outputs, warned>>
       ELSE /\ IF is_termination_condition_always_true(body_outputs[1])
               THEN /\ body_outputs' = [body_outputs EXCEPT ![1] = BodyConstTrue]
                    /\ UNCHANGED warned
               ELSE /\ warned' = TRUE
                    /\ UNCHANGED body_outputs
            /\ pc' = "check_inputs"
            /\ UNCHANGED result
    /\ UNCHANGED <<feed, exec, ng_inputs, body_graph, trip_count, termination_cond,
                   loop, final_values, scan_outputs, node_outputs>>

\* lines 172-180
CheckBodyInputs ==
    /\ pc = "check_inputs"
    /\ events' = Append(events, "check_body_inputs")
    /\ IF Len(body_inputs) >= Len(loop_carried_dependencies) + 2
       THEN pc' = "check_outputs" /\ UNCHANGED result
       ELSE pc' = "done" /\ result' = "validation_error"
    /\ UNCHANGED <<feed, exec, ng_inputs, body_graph, body_outputs, trip_count, termination_cond,
                   warned, loop, final_values, scan_outputs, node_outputs>>

\* lines 182-187
CheckBodyOutputs ==
    /\ pc = "check_outputs"
    /\ events' = Append(events, "check_body_outputs")
    /\ IF Len(body_outputs) >= Len(loop_carried_dependencies) + 1
       THEN pc' = "function" /\ UNCHANGED result
       ELSE pc' = "done" /\ result' = "validation_error"
    /\ UNCHANGED <<feed, exec, ng_inputs, body_graph, body_outputs, trip_count, termination_cond,
                   warned, loop, final_values, scan_outputs, node_outputs>>

\* lines 189-196
BuildLoop ==
    /\ pc = "function"
    /\ events' = Append(events, "index_body_inputs")
    /\ loop' = [created |-> TRUE,
                trip_count |-> trip_count,
                termination_cond |-> termination_cond,
                ports |-> <<0, 0>>,
                results |-> body_outputs,
                parameters |-> BodyParams(body_inputs),
                merged |-> <<>>]
    /\ pc' = "carried"
    /\ UNCHANGED <<feed, exec, ng_inputs, body_graph, body_outputs, trip_count, termination_cond,
                   warned, final_values, scan_outputs, node_outputs, result>>

\* lines 198-210
SetupCarried ==
    /\ pc = "carried"
    /\ loop' = [loop EXCEPT !.merged =
                   MergedInputs(body_inputs, loop_carried_dependencies, body_outputs)]
    /\ final_values' = FinalValues(loop_carried_dependencies, body_outputs)
    /\ events' = IF Len(loop_carried_dependencies) > 0
                 THEN events \o <<"index_body_inputs", "index_body_outputs">>
                 ELSE events
    /\ pc' = "scan"
    /\ UNCHANGED <<feed, exec, ng_inputs, body_graph, body_outputs, trip_count, termination_cond,
                   warned, scan_outputs, node_outputs, result>>

\* lines 212-219
SetupScan ==
    /\ pc = "scan"
    /\ scan_outputs' = ScanOutputs(loop_carried_dependencies, body_outputs)
    /\ events' = IF Len(body_outputs) > Len(loop_carried_dependencies) + 1
                 THEN Append(events, "index_body_outputs")
                 ELSE events
    /\ pc' = "return"
    /\ UNCHANGED <<feed, exec, ng_inputs, body_graph, body_outputs, trip_count, termination_cond,
                   warned, loop, final_values, node_outputs, result>>

\* lines 221-230
ReturnOutputs ==
    /\ pc = "return"
    /\ node_outputs' = NodeOutputs(final_values, scan_outputs)
    /\ result' = "ok"
    /\ pc' = "done"
    /\ UNCHANGED <<feed, exec, ng_inputs, body_graph, body_outputs, trip_count, termination_cond,
                   warned, loop, final_values, scan_outputs, events>>

Next ==
    \/ ResolveTrip
    \/ ResolveCond
    \/ ZeroIterationReturn
    \/ ScalarHandlingStep
    \/ PatternStep
    \/ CheckBodyInputs
    \/ CheckBodyOutputs
    \/ BuildLoop
    \/ SetupCarried
    \/ SetupScan
    \/ ReturnOutputs

Spec == Init /\ [][Next]_vars

\* ---- a run of the Loop op ----

ExecInit ==
    /\ \E a \in TripCountInputs, b \in TerminationInputs :
          ng_inputs = <<a, b, RuntimeInput(2, "f32")>>
    /\ \E c \in {n \in CondNodes : n.in1.const \/ n.op = "Parameter"} :
          body_graph = [outputs |-> <<BodyOut(0, c, StaticShape(<<>>)),
                                      BodyOut(1, [op |-> "Other", in1 |-> NoInput],
                                              StaticShape(<<2>>)),
                                      BodyOut(2, [op |-> "Other", in1 |-> NoInput],
                                              StaticShape(<<>>))>>,
                        parameters |-> <<0, 1, 2>>]
    /\ \E xs \in SeqsOfLen(BOOLEAN, MaxIter), t \in 0..MaxTrip :
          feed = [x |-> xs, trip |-> t]
    /\ InitLocals

\* the value a body condition output takes in an iteration where the first
\* operand of its node (or the node itself, if it has none) evaluates to x
EvalCond(node, x) ==
    CASE node.op = "Constant" -> node.val # 0
      [] node.op = "LogicalOr" -> x \/ (node.in1.val # 0)
      [] node.op = "LogicalAnd" -> x /\ (node.in1.val # 0)
      [] OTHER -> x

\* the trip count the Loop op reads: -1 is unbounded
TripValue(tc) == IF tc.op = "Constant" THEN tc.val ELSE feed.trip

\* an iteration runs while the condition holds and the trip count allows
CanStep(r, tc) ==
    /\ r.go
    /\ tc = -1 \/ r.iter < tc
    /\ r.iter < MaxIter

\* one iteration of the body: the carried value is counted up, its value on
\* entry is the scan value, the condition output is evaluated
Iterate(r, node) ==
    [iter |-> r.iter + 1,
     go |-> EvalCond(node, feed.x[r.iter + 1]),
     carried |-> r.carried + 1,
     scan |-> Append(r.scan, r.carried)]

\* exec.built runs the Loop op as loop() built it; exec.reference runs the
\* same Loop op with the body graph's own condition output
ExecStart ==
    /\ pc = "done"
    /\ loop.created
    /\ exec.pc = "idle"
    /\ LET first == [iter |-> 0, go |-> loop.termination_cond.val # 0,
                     carried |-> 0, scan |-> <<>>]
       IN exec' = [pc |-> "running", built |-> first, reference |-> first]
    /\ UNCHANGED <<feed, ng_inputs, body_graph, body_outputs, trip_count,
                   termination_cond, warned, loop, final_values, scan_outputs,
                   node_outputs, result, pc, events>>

ExecIterate ==
    /\ exec.pc = "running"
    /\ LET tc == TripValue(loop.trip_count)
       IN /\ CanStep(exec.built, tc) \/ CanStep(exec.reference, tc)
          /\ exec' = [exec EXCEPT
                        !.built = IF CanStep(@, tc)
                                  THEN Iterate(@, loop.results[1]) ELSE @,
                        !.reference = IF CanStep(@, tc)
                                      THEN Iterate(@, body_graph.outputs[1]) ELSE @]
    /\ UNCHANGED <<feed, ng_inputs, body_graph, body_outputs, trip_count,
                   termination_cond, warned, loop, final_values, scan_outputs,
                   node_outputs, result, pc, events>>

ExecFinish ==
    /\ exec.pc = "running"
    /\ LET tc == TripValue(loop.trip_count)
       IN ~CanStep(exec.built, tc) /\ ~CanStep(exec.reference, tc)
    /\ exec' = [exec EXCEPT !.pc = "finished"]
    /\ UNCHANGED <<feed, ng_inputs, body_graph, body_outputs, trip_count,
                   termination_cond, warned, loop, final_values, scan_outputs,
                   node_outputs, result, pc, events>>

ExecNext ==
    \/ Next
    \/ ExecStart
    \/ ExecIterate
    \/ ExecFinish

SpecExec == ExecInit /\ [][ExecNext]_vars

\* ---- shorthands for the properties ----
k == Len(loop_carried_dependencies)

\* the node's input 1 is a Constant holding false
ConstFalseInput == ng_inputs[2].op = "Constant" /\ ng_inputs[2].val = 0
\* the body graph as the node gave it
np == Len(body_graph.parameters)
no == Len(body_graph.outputs)
IsIndexEvent(e) == e \in {"index_body_outputs", "index_body_inputs"}

\* C1: when the Loop op is built from a body with 1 + k + m outputs, the
\* returned list has k + m entries: entry i is the final value of body output
\* i + 1 (i < k), entry k + j is the scan output of body output k + 1 + j
C1_OutputOrder ==
    (pc = "done" /\ result = "ok" /\ loop.created) =>
        /\ Len(node_outputs) = no - 1
        /\ \A i \in 1..k :
              /\ node_outputs[i].kind = "iter_value"
              /\ node_outputs[i].body_value.src = i
        /\ \A j \in 1..(no - 1 - k) :
              /\ node_outputs[k + j].kind = "concatenated_slices"
              /\ node_outputs[k + j].body_value.src = k + j
C1_Witness ==
    pc = "done" /\ result = "ok" /\ loop.created /\ k = 1 /\ no = 4

\* C2: with input 1 a constant false the call returns the initial carried
\* values twice, whatever the body's arity, creating no Loop op, running no
\* body check and raising nothing
C2_ZeroIteration ==
    ConstFalseInput =>
        /\ ~loop.created
        /\ events = <<>>
        /\ result \in {"none", "ok"}
        /\ pc = "done" =>
              /\ result = "ok"
              /\ Len(node_outputs) = 2 * k
              /\ \A i \in 1..k : /\ node_outputs[i] = ng_inputs[i + 2]
                                 /\ node_outputs[k + i] = ng_inputs[i + 2]
C2_Witness ==
    /\ ConstFalseInput /\ pc = "done" /\ k = 2
    /\ np = 0 /\ no = 0 /\ Len(node_outputs) = 4

\* C3: outside the zero-iteration path, a body with fewer than k + 2
\* parameters or fewer than k + 1 outputs ends in the validation error of the
\* body checks, with no Loop op and no output list
C3_ArityErrorIsValidationError ==
    (pc = "done" /\ ~ConstFalseInput /\ (np < k + 2 \/ no < k + 1)) =>
        /\ result = "validation_error"
        /\ ~loop.created
        /\ node_outputs = <<>>

\* C4: the Loop op's trip count is a new constant -1 when input 0 is null and
\* input 0 itself otherwise; its termination condition is always a new
\* constant true, never input 1
C4_LoopInputs ==
    loop.created =>
        /\ IF ng_inputs[1].op = "NullNode"
           THEN /\ loop.trip_count.op = "Constant"
                /\ loop.trip_count.src = -1
                /\ loop.trip_count.val = -1
           ELSE loop.trip_count = ng_inputs[1]
        /\ loop.termination_cond.op = "Constant"
        /\ loop.termination_cond.src = -1
        /\ loop.termination_cond.type = "boolean"
        /\ loop.termination_cond.val = 1
        /\ loop.termination_cond # ng_inputs[2]
C4_Witness ==
    /\ loop.created
    /\ ng_inputs[1].op = "NullNode"
    /\ ng_inputs[2].op = "Parameter"

\* the body's condition output is LogicalOr(x, boolean constant false)
IdentityPattern ==
    /\ no > 0
    /\ body_graph.outputs[1].op = "LogicalOr"
    /\ body_graph.outputs[1].in1 = [const |-> TRUE, type |-> "boolean", val |-> 0]
AnalyzerRan ==
    /\ pc \notin {"trip_count", "termination_cond", "scalar_handling", "pattern"}
    /\ ~ConstFalseInput
    /\ result # "out_of_range"

\* C5: once the pattern analyzer has run, body output 0 is a new constant true
\* and no warning was logged if the output was LogicalOr(x, constant boolean
\* false); otherwise it is the original output and the warning was logged;
\* the body function is built from that output
C5_PatternRewrite ==
    AnalyzerRan =>
        /\ IF IdentityPattern
           THEN /\ body_outputs[1].op = "Constant"
                /\ body_outputs[1].src = -1
                /\ body_outputs[1].type = "boolean"
                /\ body_outputs[1].val = 1
                /\ ~warned
           ELSE /\ body_outputs[1] = body_graph.outputs[1]
                /\ warned
        /\ loop.created => loop.results[1] = body_outputs[1]
C5_Witness ==
    AnalyzerRan /\ IdentityPattern /\ loop.created /\ pc = "done"

\* C6: after the scalar handling pass, exactly the outputs at positions
\* >= k + 1 with a static rank-0 shape have changed, to shape {1}; every other
\* output is the body graph's output
C6_ScalarHandlingFrame ==
    pc = "pattern" =>
        /\ Len(body_outputs) = no
        /\ \A j \in 1..no :
              IF /\ j - 1 >= k + 1
                 /\ body_graph.outputs[j].shape = StaticShape(<<>>)
              THEN /\ body_outputs[j].shape = StaticShape(<<1>>)
                   /\ body_outputs[j].op = "Unsqueeze"
                   /\ body_outputs[j].src = j - 1
              ELSE body_outputs[j] = body_graph.outputs[j]
C6_Witness ==
    /\ pc = "pattern" /\ k = 1 /\ no = 4
    /\ body_graph.outputs[2].shape = StaticShape(<<>>)
    /\ body_graph.outputs[3].shape = StaticShape(<<>>)
    /\ body_graph.outputs[4].shape = DynamicShape
    /\ body_outputs[3].shape = StaticShape(<<1>>)

\* C7: for a body whose condition output is LogicalOr(x, constant false),
\* the Loop op built with the rewritten condition output runs as many
\* iterations and gives the same final value and scan output as the Loop op
\* with the original condition output, for every trip count and values of x
C7_RewritePreservesResults ==
    (exec.pc = "finished" /\ IdentityPattern) =>
        /\ exec.built.iter = exec.reference.iter
        /\ exec.built.carried = exec.reference.carried
        /\ exec.built.scan = exec.reference.scan

\* C8: every indexed access to the body's parameters or outputs comes after
\* both body checks
C8_ChecksBeforeIndexing ==
    \A i \in 1..Len(events) :
        IsIndexEvent(events[i]) =>
            /\ \E a \in 1..(i - 1) : events[a] = "check_body_inputs"
            /\ \E b \in 1..(i - 1) : events[b] = "check_body_outputs"

C10_CarriedBindings ==
    (pc = "done" /\ loop.created) =>
        /\ Len(loop.merged) = k
        /\ Len(final_values) = k
        /\ \A i \in 1..k :
              /\ loop.merged[i].body_parameter = i + 1
              /\ loop.merged[i].initial_value = ng_inputs[i + 2]
              /\ loop.merged[i].successive_value = body_outputs[i + 1]
              /\ loop.merged[i].successive_value.src = i
              /\ final_values[i].body_value = body_outputs[i + 1]
              /\ final_values[i].iteration = -1
        /\ \A i, j \in 1..k :
              i # j => /\ loop.merged[i].body_parameter # loop.merged[j].body_parameter
                       /\ loop.merged[i].successive_value # loop.merged[j].successive_value
        /\ \A j \in 1..Len(scan_outputs) :
              /\ scan_outputs[j].kind = "concatenated_slices"
              /\ scan_outputs[j].start = 0
              /\ scan_outputs[j].stride = 1
              /\ scan_outputs[j].part_size = 1
              /\ scan_outputs[j].end = -1
              /\ scan_outputs[j].axis = 0
C10_Witness ==
    /\ pc = "done" /\ loop.created /\ k = 2
    /\ Len(loop.merged) = 2 /\ Len(scan_outputs) = 1
====
